---- MODULE Spec2Model ----
(***************************************************************************)
(* Gemini-HFT-System: the shared store (db_client.TradingDB and the signal *)
(* file) and the service loops that meet on it: the market feeder, the     *)
(* quant engine (pipeline), the Gemini manager (advisory) and the          *)
(* execution engine.  Every store access of a loop is one step, so the     *)
(* loops interleave between accesses as the separate processes do.         *)
(*                                                                         *)
(* Money is a whole number of currency units (the code uses floats; the    *)
(* rounding of float arithmetic is outside this model).  A timestamp is a  *)
(* positive number, the index of the price bar; NoTimestamp is SQL NULL.   *)
(* The wall-clock timestamp column of trade_logs is left out; a log entry  *)
(* carries instead the timestamp of the signal that caused it (history).   *)
(***************************************************************************)
EXTENDS Integers, Sequences, FiniteSets

\* ------------------------------------------------------------------ bounds
\* most entries of trade_logs, and most portfolio writes
MaxTrades == 2
\* most price bars the feeder appends
MaxTs == 2

\* --------------------------------------------------------------- constants
INITIAL_BALANCE == 100000
\* len(config.GEMINI_API_KEYS), len(config.GEMINI_MODELS)
NumKeys == 2
NumModels == 3
\* the row counts at which quant_engine refuses to go on
MinRows == 50
NoTimestamp == 0
NoPrice == 0
\* the prices the feeder may store
Prices == {100, 105}
Decisions == {"BUY", "SELL"}

VARIABLES
    \* the store
    portfolio,        \* row 1 of table portfolio
    trade_logs,       \* table trade_logs, oldest first
    manager_status,   \* column action of row 1 of table manager_status
    market_price,     \* price of the newest row of market_data, NoPrice if none
    market_ts,        \* timestamp of the newest row of market_data
    signal_file,      \* trade_signal.json
    \* the execution engine's loop
    e_pc, e_portfolio, e_signal, e_price, e_failed, e_logged, e_gate,
    \* the quant engine's loop
    q_pc, q_ts,
    \* history: per signal timestamp, the number of portfolio writes that took
    \* effect, and whether an update_portfolio has ever failed
    mutations, pf_write_failed,
    \* the Gemini manager's process: the rotation indices (module globals), the
    \* position in run / get_command, the iterations of get_command's loop done,
    \* and what is passed to set_manager_status
    current_api_idx, current_model_idx, m_pc, m_attempt, m_result,
    \* history of the evaluation in progress: the requests issued, the kind of
    \* the last outcome and the text of the last response
    m_requests, m_last, m_text,
    \* history of that evaluation: the (key, model) pairs it has requested
    m_tried,
    \* history of the quant engine's last cycle: the rows left after
    \* engineer_features, whether model.fit ran, and how the cycle ended
    q_rows, q_fitted, q_outcome,
    \* the services whose start-up (init_db) has run, and the seed rows that
    \* exist in the tables portfolio and manager_status
    started, rows

store_vars == <<portfolio, trade_logs, manager_status, market_price, market_ts, signal_file>>
exec_vars == <<e_pc, e_portfolio, e_signal, e_price, e_failed, e_logged, e_gate>>
quant_vars == <<q_pc, q_ts>>
hist_vars == <<mutations, pf_write_failed>>
adv_vars == <<current_api_idx, current_model_idx, m_pc, m_attempt, m_result,
              m_requests, m_last, m_text, m_tried>>
pipe_vars == <<q_rows, q_fitted, q_outcome>>
start_vars == <<started, rows>>
\* what the four loops on the store leave alone
ext_vars == <<adv_vars, pipe_vars, start_vars>>
vars == <<store_vars, exec_vars, quant_vars, hist_vars, adv_vars, pipe_vars, start_vars>>

\* ------------------------------------------------------------------- store
\* get_portfolio's substitute when the row is missing or the query raises
DefaultPortfolio ==
    [balance |-> INITIAL_BALANCE, positions |-> 0, last_trade_time |-> NoTimestamp]

\* get_portfolio: the row, or the defaults when the query raises
get_portfolio(ok) == IF ok THEN portfolio ELSE DefaultPortfolio

\* get_manager_status: the stored action, or CONTINUE when the query raises
get_manager_status(ok) == IF ok THEN manager_status ELSE "CONTINUE"

\* get_latest_prices(limit=1) and get_current_price: the newest price, or None
\* when the table is empty or the query raises
get_current_price(ok) == IF ok THEN market_price ELSE NoPrice

\* update_portfolio: one UPDATE of the three columns of row 1
UpdatePortfolioStale(pf, balance, positions, last_trade_time) ==
    [balance |-> balance, positions |-> positions,
     last_trade_time |-> pf.last_trade_time]

update_portfolio(pf, balance, positions, last_trade_time) ==
    [balance |-> balance, positions |-> positions,
     last_trade_time |-> last_trade_time]

\* the row log_trade inserts (sig: the signal timestamp, history only)
TradeEntry(action, price, quantity, balance, sig) ==
    [action |-> action, price |-> price, quantity |-> quantity,
     balance |-> balance, sig |-> sig]

\* trade_signal.json: absent, truncated by open(..., 'w'), or a whole record
NoSignal == [signal |-> "NONE", timestamp |-> NoTimestamp]
AbsentFile == [state |-> "absent", content |-> NoSignal]
TruncatedFile == [state |-> "truncated", content |-> NoSignal]
CompleteFile(sig) == [state |-> "complete", content |-> sig]

\* -------------------------------------------------------- execution engine
\* execute_buy's sizing: qty = int(balance // price)
BuyQtyOneMore(balance, price) == (balance \div price) + 1

BuyQtyOneLess(balance, price) == (balance \div price) - 1

BuyQty(balance, price) == balance \div price

\* execute_buy that books one unit of money more than the cost of the units
ExecuteBuyWithFee(balance, positions, price) ==
    IF balance <= price
    THEN [traded |-> FALSE, action |-> "BUY", qty |-> 0,
          balance |-> balance, positions |-> positions]
    ELSE LET qty == BuyQty(balance, price)
             cost == qty * price + 1
         IN [traded |-> TRUE, action |-> "BUY", qty |-> qty,
             balance |-> balance - cost, positions |-> positions + qty]

\* execute_buy: the guard and the new balance and position
execute_buy(balance, positions, price) ==
    IF balance <= price
    THEN [traded |-> FALSE, action |-> "BUY", qty |-> 0,
          balance |-> balance, positions |-> positions]
    ELSE LET qty == BuyQty(balance, price)
             cost == qty * price
         IN [traded |-> TRUE, action |-> "BUY", qty |-> qty,
             balance |-> balance - cost, positions |-> positions + qty]

\* execute_sell that keeps one unit back (a partial sell)
ExecuteSellKeepOne(balance, positions, price) ==
    IF positions <= 0
    THEN [traded |-> FALSE, action |-> "SELL", qty |-> 0,
          balance |-> balance, positions |-> positions]
    ELSE [traded |-> TRUE, action |-> "SELL", qty |-> positions - 1,
          balance |-> balance + (positions - 1) * price, positions |-> 1]

\* execute_sell: the guard and the new balance and position
execute_sell(balance, positions, price) ==
    IF positions <= 0
    THEN [traded |-> FALSE, action |-> "SELL", qty |-> 0,
          balance |-> balance, positions |-> positions]
    ELSE LET revenue == positions * price
         IN [traded |-> TRUE, action |-> "SELL", qty |-> positions,
             balance |-> balance + revenue, positions |-> 0]

NoTrade(balance, positions) ==
    [traded |-> FALSE, action |-> "NONE", qty |-> 0,
     balance |-> balance, positions |-> positions]

\* run's "Execute trades" branch with the guards weakened to "has any funds"
TradePlanFundsOnly(sig_type, balance, positions, price) ==
    IF sig_type = "BUY" /\ balance > 0
    THEN LET qty == BuyQty(balance, price)
         IN [traded |-> TRUE, action |-> "BUY", qty |-> qty,
             balance |-> balance - qty * price, positions |-> positions + qty]
    ELSE IF sig_type = "SELL" /\ positions >= 0
    THEN [traded |-> TRUE, action |-> "SELL", qty |-> positions,
          balance |-> balance + positions * price, positions |-> 0]
    ELSE NoTrade(balance, positions)

\* run's "Execute trades" branch: which execute_* is called, and what it plans
TradePlan(sig_type, balance, positions, price) ==
    IF sig_type = "BUY" /\ balance > price
    THEN execute_buy(balance, positions, price)
    ELSE IF sig_type = "SELL" /\ positions > 0
    THEN execute_sell(balance, positions, price)
    ELSE NoTrade(balance, positions)

\* the plan of the cycle in progress, from what the cycle read
Plan == TradePlan(e_signal.signal, e_portfolio.balance, e_portfolio.positions, e_price)

\* the services that call init_db when they start
Services == {"dashboard", "feeder", "execution", "manager"}
SeedRows == {"portfolio", "manager_status"}

\* no response text, and no result yet
NoText == [match |-> FALSE, json |-> FALSE, action |-> "none", reason |-> "none"]
NoResult == <<"NONE", "none">>

\* everything but trade_logs and the start-up state: a new database after
\* init_db, every loop at the top of its first cycle
InitRest ==
    /\ portfolio = [balance |-> INITIAL_BALANCE, positions |-> 0,
                    last_trade_time |-> NoTimestamp]
    /\ manager_status = "CONTINUE"
    /\ signal_file = AbsentFile
    /\ e_pc = "get_portfolio"
    /\ e_portfolio = DefaultPortfolio
    /\ e_signal = NoSignal
    /\ e_price = NoPrice
    /\ e_failed = {}
    /\ e_logged = FALSE
    /\ e_gate = "CONTINUE"
    /\ q_pc = "load"
    /\ q_ts = NoTimestamp
    /\ mutations = [t \in 1..MaxTs |-> 0]
    /\ pf_write_failed = FALSE
    /\ current_api_idx = 0
    /\ current_model_idx = 0
    /\ m_pc = "get_recent_trades"
    /\ m_attempt = 0
    /\ m_result = NoResult
    /\ m_requests = 0
    /\ m_last = "none"
    /\ m_text = NoText
    /\ m_tried = {}
    /\ q_rows = 0
    /\ q_fitted = FALSE
    /\ q_outcome = "none"

\* all services started on a new database
Init ==
    /\ InitRest
    /\ market_price = NoPrice
    /\ market_ts = NoTimestamp
    /\ trade_logs = <<>>
    /\ started = Services
    /\ rows = SeedRows

\* the number of portfolio writes that took effect
RECURSIVE SumTo(_, _)
SumTo(f, n) == IF n = 0 THEN 0 ELSE f[n] + SumTo(f, n - 1)

NMutations == SumTo(mutations, MaxTs)

\* the cycle ends (sleep, then the top of the while loop); the locals of the
\* cycle are dead and are reassigned by the next one
EndCycle ==
    /\ e_pc' = "get_portfolio"
    /\ e_portfolio' = DefaultPortfolio
    /\ e_signal' = NoSignal
    /\ e_price' = NoPrice
    /\ e_failed' = {}
    /\ e_logged' = FALSE
    /\ e_gate' = "CONTINUE"

\* run: portfolio = db.get_portfolio()
ExecGetPortfolio(ok) ==
    /\ e_pc = "get_portfolio"
    /\ e_portfolio' = get_portfolio(ok)
    /\ e_failed' = IF ok THEN {} ELSE {"portfolio"}
    /\ e_pc' = "load_signal"
    /\ UNCHANGED <<e_signal, e_price, e_logged, e_gate>>
    /\ UNCHANGED <<store_vars, quant_vars, hist_vars>>
    /\ UNCHANGED ext_vars

\* the loop without its except clause: the error json.load raises on a
\* truncated file ends the process
ExecLoadSignalUncaught ==
    /\ e_pc = "load_signal"
    /\ IF signal_file.state = "truncated"
       THEN /\ e_pc' = "terminated"
            /\ UNCHANGED <<e_portfolio, e_signal, e_price, e_failed, e_logged, e_gate>>
       ELSE /\ e_signal' = signal_file.content
            /\ e_pc' = "get_current_price"
            /\ UNCHANGED <<e_portfolio, e_price, e_failed, e_logged, e_gate>>
    /\ UNCHANGED <<store_vars, quant_vars, hist_vars>>
    /\ UNCHANGED ext_vars

\* run: signal = load_signal(); a truncated file makes json.load raise, which
\* run's except catches
ExecLoadSignal ==
    /\ e_pc = "load_signal"
    /\ IF signal_file.state = "truncated"
       THEN EndCycle
       ELSE /\ e_signal' = signal_file.content
            /\ e_pc' = "get_current_price"
            /\ UNCHANGED <<e_portfolio, e_price, e_failed, e_logged, e_gate>>
    /\ UNCHANGED <<store_vars, quant_vars, hist_vars>>
    /\ UNCHANGED ext_vars

\* the step with the anti-spam check left to after the gate: a signal that is
\* present goes on to the gate read whatever its timestamp
ExecGetCurrentPriceGateFirst(ok) ==
    /\ e_pc = "get_current_price"
    /\ LET price == get_current_price(ok) IN
       IF e_signal = NoSignal \/ price = NoPrice
       THEN EndCycle
       ELSE /\ e_price' = price
            /\ e_pc' = "get_manager_status"
            /\ UNCHANGED <<e_portfolio, e_signal, e_failed, e_logged, e_gate>>
    /\ UNCHANGED <<store_vars, quant_vars, hist_vars>>
    /\ UNCHANGED ext_vars

\* the step without the check 'if not signal or not price'
ExecGetCurrentPriceUnchecked(ok) ==
    /\ e_pc = "get_current_price"
    /\ LET price == get_current_price(ok) IN
       IF e_signal.timestamp = e_portfolio.last_trade_time
       THEN EndCycle
       ELSE /\ e_price' = price
            /\ e_pc' = "get_manager_status"
            /\ UNCHANGED <<e_portfolio, e_signal, e_failed, e_logged, e_gate>>
    /\ UNCHANGED <<store_vars, quant_vars, hist_vars>>
    /\ UNCHANGED ext_vars

\* run: price = get_current_price(db), then the missing-input check and the
\* anti-spam check
ExecGetCurrentPrice(ok) ==
    /\ e_pc = "get_current_price"
    /\ LET price == get_current_price(ok) IN
       IF e_signal = NoSignal \/ price = NoPrice
       THEN EndCycle
       ELSE IF e_signal.timestamp = e_portfolio.last_trade_time
       THEN EndCycle
       ELSE /\ e_price' = price
            /\ e_pc' = "get_manager_status"
            /\ UNCHANGED <<e_portfolio, e_signal, e_failed, e_logged, e_gate>>
    /\ UNCHANGED <<store_vars, quant_vars, hist_vars>>
    /\ UNCHANGED ext_vars

\* the step with a skipped signal recorded as handled: a cycle that neither
\* execute_buy nor execute_sell acts in stores the signal's timestamp
ExecGetManagerStatusMarksSkipped(ok) ==
    /\ e_pc = "get_manager_status"
    /\ Len(trade_logs) < MaxTrades
    /\ NMutations < MaxTrades
    /\ IF get_manager_status(ok) = "PAUSE"
       THEN EndCycle /\ UNCHANGED store_vars
       ELSE IF Plan.traded
       THEN /\ e_pc' = "log_trade"
            /\ e_gate' = manager_status
            /\ e_failed' = IF ok THEN e_failed ELSE e_failed \cup {"gate"}
            /\ UNCHANGED <<e_portfolio, e_signal, e_price, e_logged>>
            /\ UNCHANGED store_vars
       ELSE /\ EndCycle
            /\ portfolio' = [portfolio EXCEPT !.last_trade_time = e_signal.timestamp]
            /\ UNCHANGED <<trade_logs, manager_status, market_price, market_ts,
                           signal_file>>
    /\ UNCHANGED <<quant_vars, hist_vars>>
    /\ UNCHANGED ext_vars

\* run: manager_action = db.get_manager_status(), the PAUSE check, and the
\* choice of the trade (e_gate: the stored action at the time of the read)
ExecGetManagerStatus(ok) ==
    /\ e_pc = "get_manager_status"
    /\ Len(trade_logs) < MaxTrades
    /\ NMutations < MaxTrades
    /\ IF get_manager_status(ok) = "PAUSE"
       THEN EndCycle
       ELSE IF Plan.traded
       THEN /\ e_pc' = "log_trade"
            /\ e_gate' = manager_status
            /\ e_failed' = IF ok THEN e_failed ELSE e_failed \cup {"gate"}
            /\ UNCHANGED <<e_portfolio, e_signal, e_price, e_logged>>
       ELSE EndCycle
    /\ UNCHANGED <<store_vars, quant_vars, hist_vars>>
    /\ UNCHANGED ext_vars

\* execute_buy / execute_sell: db.log_trade(...), whose result is ignored
ExecLogTrade(ok) ==
    /\ e_pc = "log_trade"
    /\ trade_logs' =
         IF ok
         THEN Append(trade_logs,
                     TradeEntry(Plan.action, e_price, Plan.qty, Plan.balance,
                                e_signal.timestamp))
         ELSE trade_logs
    /\ e_logged' = ok
    /\ e_pc' = "update_portfolio"
    /\ UNCHANGED <<portfolio, manager_status, market_price, market_ts, signal_file>>
    /\ UNCHANGED <<e_portfolio, e_signal, e_price, e_failed, e_gate>>
    /\ UNCHANGED <<quant_vars, hist_vars>>
    /\ UNCHANGED ext_vars

\* execute_buy / execute_sell: db.update_portfolio(...), whose result is
\* ignored; then the cycle ends
ExecUpdatePortfolio(ok) ==
    /\ e_pc = "update_portfolio"
    /\ IF ok
       THEN /\ portfolio' = update_portfolio(portfolio, Plan.balance, Plan.positions,
                                             e_signal.timestamp)
            /\ mutations' = [mutations EXCEPT ![e_signal.timestamp] = @ + 1]
            /\ UNCHANGED pf_write_failed
       ELSE /\ pf_write_failed' = TRUE
            /\ UNCHANGED <<portfolio, mutations>>
    /\ EndCycle
    /\ UNCHANGED <<trade_logs, manager_status, market_price, market_ts, signal_file>>
    /\ UNCHANGED quant_vars
    /\ UNCHANGED ext_vars

Execution ==
    \/ \E ok \in BOOLEAN : ExecGetPortfolio(ok)
    \/ ExecLoadSignal
    \/ \E ok \in BOOLEAN : ExecGetCurrentPrice(ok)
    \/ \E ok \in BOOLEAN : ExecGetManagerStatus(ok)
    \/ \E ok \in BOOLEAN : ExecLogTrade(ok)
    \/ \E ok \in BOOLEAN : ExecUpdatePortfolio(ok)

\* ------------------------------------------------------------ market feeder
\* market_feeder.run: db.log_price(...) appends the newest price sample
FeederLogPrice(price) ==
    /\ market_ts < MaxTs
    /\ market_price' = price
    /\ market_ts' = market_ts + 1
    /\ UNCHANGED <<portfolio, trade_logs, manager_status, signal_file>>
    /\ UNCHANGED <<exec_vars, quant_vars, hist_vars>>
    /\ UNCHANGED ext_vars

\* ------------------------------------------------------------- quant engine
\* quant_engine.run: load_market_data reads the newest bar, whose timestamp
\* train_and_predict gives the signal, and save_signal's open(SIGNAL_FILE, 'w')
\* truncates the file
QuantOpenStep ==
    /\ q_pc = "load"
    /\ market_ts # NoTimestamp
    /\ q_ts' = market_ts
    /\ signal_file' = TruncatedFile
    /\ q_pc' = "dump"
    /\ UNCHANGED <<portfolio, trade_logs, manager_status, market_price, market_ts>>
    /\ UNCHANGED <<exec_vars, hist_vars>>

\* save_signal: json.dump of the signal train_and_predict returned (BUY or
\* SELL, as the classifier predicted) and the close of the file
QuantDumpStep(decision) ==
    /\ q_pc = "dump"
    /\ signal_file' = CompleteFile([signal |-> decision, timestamp |-> q_ts])
    /\ q_ts' = NoTimestamp
    /\ q_pc' = "load"
    /\ UNCHANGED <<portfolio, trade_logs, manager_status, market_price, market_ts>>
    /\ UNCHANGED <<exec_vars, hist_vars>>

\* the two steps in the model of the store, the cycle's row counts left out
QuantOpen == QuantOpenStep /\ UNCHANGED ext_vars

QuantDump(decision) == QuantDumpStep(decision) /\ UNCHANGED ext_vars

Quant ==
    \/ QuantOpen
    \/ \E d \in Decisions : QuantDump(d)

\* ----------------------------------------------------------- Gemini manager
\* gemini_manager.run, one cycle: CONTINUE ('No trades') on an empty
\* trade_logs, else the action get_command returned; set_manager_status
\* leaves the row as it is when the UPDATE raises
ManagerCycle(action, ok) ==
    /\ trade_logs = <<>> => action = "CONTINUE"
    /\ manager_status' = IF ok THEN action ELSE manager_status
    /\ UNCHANGED <<portfolio, trade_logs, market_price, market_ts, signal_file>>
    /\ UNCHANGED <<exec_vars, quant_vars, hist_vars>>
    /\ UNCHANGED ext_vars

Manager == \E a \in {"CONTINUE", "PAUSE"}, ok \in BOOLEAN : ManagerCycle(a, ok)

Feeder == \E p \in Prices : FeederLogPrice(p)

\* the four loops on the store; the manager's cycle is one step here
Loops == Execution \/ Quant \/ Manager \/ Feeder

Next == Loops

Spec == Init /\ [][Next]_vars

\* each service is a process of its own whose loop sleeps and goes on: a loop
\* that can take a step takes one (weak fairness per loop)
\* the three loops that trade, advise and predict, on a market that holds
\* its first price
InitLive ==
    /\ InitRest
    /\ market_price \in Prices
    /\ market_ts = 1
    /\ trade_logs = <<>>
    /\ started = Services
    /\ rows = SeedRows

NextLive == Execution \/ Quant \/ Manager

SpecLive ==
    /\ InitLive /\ [][NextLive]_vars
    /\ WF_vars(Execution) /\ WF_vars(Quant) /\ WF_vars(Manager)

\* ------------------------------------------------- quant engine, in detail
\* q_rows when the cycle did not get through engineer_features (df is None)
NoRows == -1

\* the row counts engineer_features may leave, around the guard's threshold
RowCounts == {0, MinRows - 1, MinRows, MinRows + 1, MinRows + 2}

\* train_and_predict without df_train = df_train[:-1]
LabeledRowsKeepLast(n) == n

\* train_and_predict: the rows of df_train after the last row, whose target
\* is unknown, is cut off (df_train[:-1])
LabeledRows(n) == IF n > 0 THEN n - 1 ELSE 0

\* whether the cycle gets to model.fit: run's len(df) < 50 after
\* engineer_features, then train_and_predict's len(df_train) < 50
ReachesFit(n) == ~(n < MinRows) /\ ~(LabeledRows(n) < MinRows)

\* a cycle that ends before engineer_features returns: no market data, too
\* few rows after warmup_data (continue), or an exception on the way (except)
PipeNoFeatures(outcome) ==
    /\ q_pc = "load"
    /\ q_rows' = NoRows
    /\ q_fitted' = FALSE
    /\ q_outcome' = outcome
    /\ UNCHANGED <<store_vars, exec_vars, quant_vars, hist_vars, adv_vars, start_vars>>

\* a cycle whose engineered frame has n rows and does not reach model.fit:
\* run continues, or train_and_predict returns None and save_signal is skipped
PipeNoSignal(n) ==
    /\ q_pc = "load"
    /\ ~ReachesFit(n)
    /\ q_rows' = n
    /\ q_fitted' = FALSE
    /\ q_outcome' = "no_signal"
    /\ UNCHANGED <<store_vars, exec_vars, quant_vars, hist_vars, adv_vars, start_vars>>

\* a cycle whose engineered frame has n rows and reaches model.fit, which
\* raises, or whose predict or open() raises: the except clause ends it
PipeFitError(n, fitted) ==
    /\ q_pc = "load"
    /\ ReachesFit(n)
    /\ q_rows' = n
    /\ q_fitted' = fitted
    /\ q_outcome' = "error"
    /\ UNCHANGED <<store_vars, exec_vars, quant_vars, hist_vars, adv_vars, start_vars>>

\* a cycle whose engineered frame has n rows, fits the model, predicts and
\* enters save_signal
PipeFitAndOpen(n) ==
    /\ ReachesFit(n)
    /\ QuantOpenStep
    /\ q_rows' = n
    /\ q_fitted' = TRUE
    /\ q_outcome' = "signal"
    /\ UNCHANGED <<adv_vars, start_vars>>

\* save_signal: json.dump and the close of the file
PipeDump(decision) ==
    /\ QuantDumpStep(decision)
    /\ UNCHANGED <<adv_vars, pipe_vars, start_vars>>

Pipeline ==
    \/ \E outcome \in {"no_data", "error"} : PipeNoFeatures(outcome)
    \/ \E n \in RowCounts : PipeNoSignal(n)
    \/ \E n \in RowCounts, fitted \in BOOLEAN : PipeFitError(n, fitted)
    \/ \E n \in RowCounts : PipeFitAndOpen(n)
    \/ \E d \in Decisions : PipeDump(d)

\* the quant engine next to the market feeder
NextPipeline == Pipeline \/ Feeder

SpecPipeline == Init /\ [][NextPipeline]_vars

\* ----------------------------------------------------------------- start-up
\* init_db with the INSERT run whether or not the row is there
SeedRowAlways(present, stored, seed) == seed

\* init_db: a seed row is inserted only when its table holds no row
\* (SELECT COUNT(*) ... == 0); a row that is there stays as stored
SeedRow(present, stored, seed) == IF present THEN stored ELSE seed

\* the start of a process that calls TradingDB.init_db() before its loop: the
\* dashboard, the market feeder, the execution engine, the Gemini manager
\* (the quant engine does not call it)
StartUp(s) ==
    /\ s \notin started
    /\ started' = started \cup {s}
    /\ rows' = rows \cup SeedRows
    /\ portfolio' = SeedRow("portfolio" \in rows, portfolio, DefaultPortfolio)
    /\ manager_status' = SeedRow("manager_status" \in rows, manager_status, "CONTINUE")
    /\ UNCHANGED <<trade_logs, market_price, market_ts, signal_file>>
    /\ UNCHANGED <<exec_vars, quant_vars, hist_vars, adv_vars, pipe_vars>>

\* each loop runs once its process is through init_db
NextStartup ==
    \/ \E s \in Services : StartUp(s)
    \/ ("execution" \in started /\ Execution)
    \/ ("manager" \in started /\ Manager)
    \/ ("feeder" \in started /\ Feeder)
    \/ Quant

\* a fresh store: no table holds a row and no process has started
InitStartup ==
    /\ InitRest
    /\ market_price = NoPrice
    /\ market_ts = NoTimestamp
    /\ trade_logs = <<>>
    /\ started = {}
    /\ rows = {}

SpecStartup == InitStartup /\ [][NextStartup]_vars

\* ------------------------------------------------ a store that never fails
\* the loops with every store access succeeding: the queries return the
\* rows, the INSERT and the UPDATEs go through
ExecutionReliable ==
    \/ ExecGetPortfolio(TRUE)
    \/ ExecLoadSignal
    \/ ExecGetCurrentPrice(TRUE)
    \/ ExecGetManagerStatus(TRUE)
    \/ ExecLogTrade(TRUE)
    \/ ExecUpdatePortfolio(TRUE)

ManagerReliable == \E a \in {"CONTINUE", "PAUSE"} : ManagerCycle(a, TRUE)

NextReliable == ExecutionReliable \/ Quant \/ ManagerReliable \/ Feeder

SpecReliable == Init /\ [][NextReliable]_vars

\* ------------------------------------------- Gemini manager, in detail
\* get_command's loop bound with one iteration too many
AttemptsOneMore == NumKeys * NumModels + 1

\* get_command: attempts = len(GEMINI_API_KEYS) * len(GEMINI_MODELS)
Attempts == NumKeys * NumModels

\* rotate_model: the next model, wrapping to the first
rotate_model(model_idx) == (model_idx + 1) % NumModels

\* rotate_api: the next key, wrapping to the first (the model index becomes 0)
rotate_api(api_idx) == (api_idx + 1) % NumKeys

\* the quota branch with the test for a later key always met
HasLaterKeyAlways(api_idx) == TRUE

\* get_command's quota branch: current_model_idx < len(GEMINI_MODELS) - 1 and
\* current_api_idx < len(GEMINI_API_KEYS) - 1
HasLaterModel(model_idx) == model_idx < NumModels - 1

HasLaterKey(api_idx) == api_idx < NumKeys - 1

\* the message of an exception, by what the two classifiers look for in it:
\* '404' or 'not found', and 'rate', 'quota', '429' or 'exhausted'
ErrorMessages == [not_found : BOOLEAN, rate : BOOLEAN]

is_not_found(msg) == msg.not_found

is_rate_limit(msg) == msg.rate

\* the branch of get_command's except that a message takes
ErrorKind(msg) ==
    IF is_not_found(msg) THEN "not_found"
    ELSE IF is_rate_limit(msg) THEN "rate_limit"
    ELSE "other"

\* str.upper() on the action strings a response may carry
Upper(a) ==
    CASE a = "continue" -> "CONTINUE"
      [] a = "Pause" -> "PAUSE"
      [] OTHER -> a

\* a response text, by what parse_response does with it: whether the pattern
\* {...} matches, whether json.loads accepts the match, and the value of
\* 'action' ("absent": no such key; "nonstring": a value without upper())
ResponseActions == {"absent", "nonstring", "CONTINUE", "continue", "PAUSE", "Pause", "HOLD"}
Texts ==
    {[match |-> FALSE, json |-> FALSE, action |-> "absent", reason |-> ""],
     [match |-> TRUE, json |-> FALSE, action |-> "absent", reason |-> ""]}
    \cup {[match |-> TRUE, json |-> TRUE, action |-> a, reason |-> "given"] :
            a \in ResponseActions}

\* parse_response without the check of the action against CONTINUE / PAUSE
ParseResponseUnchecked(text) ==
    IF ~text.match THEN <<"CONTINUE", "Parse fallback">>
    ELSE IF ~text.json \/ text.action = "nonstring" THEN <<"CONTINUE", "Parse error">>
    ELSE IF text.action = "absent" THEN <<"CONTINUE", "Parse fallback">>
    ELSE <<Upper(text.action), text.reason>>

\* parse_response: the (action, reason) of a response text
parse_response(text) ==
    IF ~text.match THEN <<"CONTINUE", "Parse fallback">>
    ELSE IF ~text.json \/ text.action = "nonstring" THEN <<"CONTINUE", "Parse error">>
    ELSE IF text.action = "absent" THEN <<"CONTINUE", "Parse fallback">>
    ELSE IF Upper(text.action) \in {"CONTINUE", "PAUSE"}
    THEN <<Upper(text.action), text.reason>>
    ELSE <<"CONTINUE", "Parse fallback">>

\* run's check that skips the evaluation, dropped
TradesEmptyIgnored(ok) == FALSE

\* run: db.get_recent_trades(10).empty; the frame is empty too when the
\* query raises
TradesEmpty(ok) == ~ok \/ trade_logs = <<>>

\* the start of a cycle with the rotation begun afresh at the first key and
\* the first model
AdvGetRecentTradesResets(ok) ==
    /\ m_pc = "get_recent_trades"
    /\ m_attempt' = 0
    /\ m_requests' = 0
    /\ m_last' = "none"
    /\ m_text' = NoText
    /\ m_tried' = {}
    /\ IF TradesEmpty(ok)
       THEN m_result' = <<"CONTINUE", "No trades">> /\ m_pc' = "set_manager_status"
       ELSE m_result' = NoResult /\ m_pc' = "request"
    /\ current_api_idx' = 0
    /\ current_model_idx' = 0
    /\ UNCHANGED <<store_vars, exec_vars, quant_vars, hist_vars, pipe_vars, start_vars>>

\* run: trades = db.get_recent_trades(10), and on an empty frame the call of
\* set_manager_status('CONTINUE', 'No trades'); else get_command is entered
AdvGetRecentTrades(ok) ==
    /\ m_pc = "get_recent_trades"
    /\ m_attempt' = 0
    /\ m_requests' = 0
    /\ m_last' = "none"
    /\ m_text' = NoText
    /\ m_tried' = {}
    /\ IF TradesEmpty(ok)
       THEN m_result' = <<"CONTINUE", "No trades">> /\ m_pc' = "set_manager_status"
       ELSE m_result' = NoResult /\ m_pc' = "request"
    /\ UNCHANGED <<current_api_idx, current_model_idx>>
    /\ UNCHANGED <<store_vars, exec_vars, quant_vars, hist_vars, pipe_vars, start_vars>>

\* get_command, one iteration whose request succeeds:
\* return parse_response(response.text.strip())
AdvRequestSuccess(text) ==
    /\ m_pc = "request"
    /\ m_requests' = m_requests + 1
    /\ m_attempt' = m_attempt + 1
    /\ m_last' = "success"
    /\ m_text' = text
    /\ m_tried' = m_tried \cup {<<current_api_idx, current_model_idx>>}
    /\ m_result' = parse_response(text)
    /\ m_pc' = "set_manager_status"
    /\ UNCHANGED <<current_api_idx, current_model_idx>>
    /\ UNCHANGED <<store_vars, exec_vars, quant_vars, hist_vars, pipe_vars, start_vars>>

\* get_command, one iteration whose request raises: the except branch, and
\* the end of the loop after the last iteration
AdvRequestError(msg) ==
    /\ m_pc = "request"
    /\ m_requests' = m_requests + 1
    /\ m_attempt' = m_attempt + 1
    /\ m_last' = ErrorKind(msg)
    /\ UNCHANGED m_text
    /\ m_tried' = m_tried \cup {<<current_api_idx, current_model_idx>>}
    /\ LET exhausted == /\ ~is_not_found(msg) /\ is_rate_limit(msg)
                        /\ ~HasLaterModel(current_model_idx)
                        /\ ~HasLaterKey(current_api_idx)
       IN
       /\ IF is_not_found(msg)
          THEN /\ current_model_idx' = rotate_model(current_model_idx)
               /\ UNCHANGED current_api_idx
          ELSE IF is_rate_limit(msg)
          THEN IF HasLaterModel(current_model_idx)
               THEN /\ current_model_idx' = rotate_model(current_model_idx)
                    /\ UNCHANGED current_api_idx
               ELSE IF HasLaterKey(current_api_idx)
               THEN /\ current_api_idx' = rotate_api(current_api_idx)
                    /\ current_model_idx' = 0
               ELSE UNCHANGED <<current_api_idx, current_model_idx>>
          ELSE /\ current_model_idx' = rotate_model(current_model_idx)
               /\ UNCHANGED current_api_idx
       /\ IF exhausted
          THEN m_result' = <<"CONTINUE", "All APIs exhausted">> /\ m_pc' = "set_manager_status"
          ELSE IF m_attempt + 1 >= Attempts
          THEN m_result' = <<"CONTINUE", "Failed">> /\ m_pc' = "set_manager_status"
          ELSE UNCHANGED <<m_result, m_pc>>
    /\ UNCHANGED <<store_vars, exec_vars, quant_vars, hist_vars, pipe_vars, start_vars>>

\* run: db.set_manager_status(action, reason), which leaves the row as it is
\* when the UPDATE raises; then the cycle ends
AdvSetManagerStatus(ok) ==
    /\ m_pc = "set_manager_status"
    /\ manager_status' = IF ok THEN m_result[1] ELSE manager_status
    /\ m_pc' = "get_recent_trades"
    /\ UNCHANGED <<portfolio, trade_logs, market_price, market_ts, signal_file>>
    /\ UNCHANGED <<current_api_idx, current_model_idx, m_attempt, m_result,
                   m_requests, m_last, m_text, m_tried>>
    /\ UNCHANGED <<exec_vars, quant_vars, hist_vars, pipe_vars, start_vars>>

Advisory ==
    \/ \E ok \in BOOLEAN : AdvGetRecentTrades(ok)
    \/ \E text \in Texts : AdvRequestSuccess(text)
    \/ \E msg \in ErrorMessages : AdvRequestError(msg)
    \/ \E ok \in BOOLEAN : AdvSetManagerStatus(ok)

\* the trade log the manager finds: empty, or holding a trade
InitAdvisory ==
    /\ InitRest
    /\ market_price = NoPrice
    /\ market_ts = NoTimestamp
    /\ trade_logs \in {<<>>, <<TradeEntry("BUY", 100, 1000, 0, 1)>>}
    /\ started = Services
    /\ rows = SeedRows

\* the Gemini manager alone, cycle after cycle in one process
SpecAdvisory == InitAdvisory /\ [][Advisory]_vars

\* ------------------------------------------------------------------ claims
Last(s) == s[Len(s)]

\* the entries of trade_logs caused by the signal of timestamp t
EntriesOf(t) == {i \in DOMAIN trade_logs : trade_logs[i].sig = t}

\* this step is a store write of the execution engine that took effect
LogAppended == trade_logs' # trade_logs
PortfolioWritten == mutations' # mutations

\* C1: the stored portfolio never has a negative balance or a negative
\* position, whatever cycles ran and whichever store accesses failed.
C1_PortfolioNonNegative ==
    portfolio.balance >= 0 /\ portfolio.positions >= 0

\* a BUY and then a SELL have both been written to the portfolio
C1_Witness ==
    /\ NMutations >= 2
    /\ portfolio.positions = 0
    /\ portfolio.balance > INITIAL_BALANCE

\* C2: in a cycle whose signal carries the stored last_trade_time, nothing is
\* appended to trade_logs and the portfolio is not written.
C2_StaleSignalNoMutation ==
    [][(e_signal # NoSignal /\ e_signal.timestamp = portfolio.last_trade_time)
         => ~LogAppended /\ ~PortfolioWritten]_vars

\* C3: as long as no update_portfolio has failed, a signal timestamp has at
\* most one entry of trade_logs and at most one portfolio write.
C3_AtMostOneTradePerTimestamp ==
    ~pf_write_failed =>
        \A t \in 1..MaxTs : mutations[t] <= 1 /\ Cardinality(EntriesOf(t)) <= 1

\* C4: a cycle that read the gate while the stored action was PAUSE appends
\* nothing to trade_logs and does not write the portfolio.
C4_PauseNoMutation ==
    [][(e_pc \in {"log_trade", "update_portfolio"} /\ e_gate = "PAUSE")
         => ~LogAppended /\ ~PortfolioWritten]_vars

\* C5: a cycle writes a BUY only with its balance above its price, and a SELL
\* only with its position above zero (balance, position and price as the
\* cycle holds them).
C5_TradesAreGuarded ==
    [][(LogAppended \/ PortfolioWritten)
         => /\ e_signal.signal = "BUY" => e_portfolio.balance > e_price
            /\ e_signal.signal = "SELL" => e_portfolio.positions > 0]_vars

\* a BUY signal met a balance not above the price, and a SELL signal met an
\* empty position, after trades were made
C5_Witness ==
    /\ NMutations >= 1
    /\ e_pc = "get_manager_status"
    /\ \/ e_signal.signal = "BUY" /\ e_portfolio.balance <= e_price
       \/ e_signal.signal = "SELL" /\ e_portfolio.positions = 0

\* C6: a cycle in which the read of the portfolio, the signal, the price or
\* the gate failed appends nothing to trade_logs and does not write the
\* portfolio.
C6_FailedReadSkipsCycle ==
    [][e_failed # {} => ~LogAppended /\ ~PortfolioWritten]_vars

\* C7: between cycles, once the stored last_trade_time is the timestamp of the
\* signal in the file (no retry is pending), trade_logs has as many entries as
\* the portfolio has had writes.
C7_LogMatchesPortfolio ==
    (/\ e_pc = "get_portfolio"
     /\ signal_file.state = "complete"
     /\ signal_file.content.timestamp = portfolio.last_trade_time)
        => Len(trade_logs) = NMutations

\* C8: the entry of a trade is appended before the portfolio is written: an
\* append leaves the portfolio alone and leads to the portfolio write, and the
\* portfolio write, in one step, sets last_trade_time to the timestamp of the
\* signal acted on together with the balance of the entry just logged.
C8_LogThenPortfolio ==
    [][/\ LogAppended =>
            /\ e_pc = "log_trade" /\ e_pc' = "update_portfolio"
            /\ portfolio' = portfolio
            /\ Last(trade_logs').sig = e_signal.timestamp
       /\ PortfolioWritten =>
            /\ e_pc = "update_portfolio"
            /\ trade_logs' = trade_logs
            /\ portfolio'.last_trade_time = e_signal.timestamp
            /\ e_logged =>
                 /\ Last(trade_logs).sig = e_signal.timestamp
                 /\ Last(trade_logs).action = e_signal.signal
                 /\ portfolio'.balance = Last(trade_logs).balance]_vars

\* a trade whose two writes both took effect
C8_Witness ==
    /\ e_pc = "get_portfolio"
    /\ NMutations = 1
    /\ Len(trade_logs) = 1
    /\ portfolio.last_trade_time = Last(trade_logs).sig
    /\ portfolio.balance = Last(trade_logs).balance

\* C9: a BUY called with balance b and price p buys the largest whole q with
\* q*p <= b: the new balance b - q*p is in [0, p), the new position is the old
\* one plus q, and b = 100000, p = 100 gives q = 1000 and balance 0.
C9_AllInSizing ==
    [][(PortfolioWritten /\ e_signal.signal = "BUY") =>
         LET b == e_portfolio.balance
             p == e_price
             q == portfolio'.positions - e_portfolio.positions
             nb == portfolio'.balance
         IN /\ q * p <= b /\ (q + 1) * p > b
            /\ nb = b - q * p /\ 0 <= nb /\ nb < p
            /\ e_logged => Last(trade_logs).quantity = q
            /\ (b = 100000 /\ p = 100) => (q = 1000 /\ nb = 0)]_vars

\* the BUY of the scenario: 1000 units at 100 from a balance of 100000
C9_Witness ==
    /\ portfolio.balance = 0 /\ portfolio.positions = 1000
    /\ trade_logs # <<>>
    /\ Last(trade_logs) = TradeEntry("BUY", 100, 1000, 0, portfolio.last_trade_time)

\* C10: a SELL written to the portfolio sells the whole stored position n > 0
\* at the price p: the new balance is the old one plus n*p, the new position
\* is 0 and the logged quantity is n.
C10_FullLiquidation ==
    [][(PortfolioWritten /\ e_signal.signal = "SELL") =>
         /\ portfolio.positions > 0
         /\ portfolio'.positions = 0
         /\ portfolio'.balance = portfolio.balance + portfolio.positions * e_price
         /\ e_logged =>
              /\ Last(trade_logs).action = "SELL"
              /\ Last(trade_logs).quantity = portfolio.positions]_vars

\* the SELL of the scenario: 1000 units at 105
C10_Witness ==
    /\ portfolio.positions = 0 /\ portfolio.balance = 105000
    /\ trade_logs # <<>>
    /\ Last(trade_logs) = TradeEntry("SELL", 105, 1000, 105000, portfolio.last_trade_time)

\* a step of get_command's loop whose request raised
RequestFailed ==
    m_pc = "request" /\ m_requests' = m_requests + 1 /\ m_last' # "success"

\* a step of get_command's loop whose request returned a text
RequestSucceeded ==
    m_pc = "request" /\ m_requests' = m_requests + 1 /\ m_last' = "success"

\* C11: whatever the starting rotation indices and the outcomes of the
\* requests, one evaluation issues at most |keys| x |models| requests (while
\* another request may follow, fewer than that many were issued, so the loop
\* ends), and what it returns has an action of CONTINUE or PAUSE.
C11_BoundedEvaluation ==
    /\ m_requests <= NumKeys * NumModels
    /\ (m_pc = "request" => m_requests < NumKeys * NumModels)
    /\ (m_pc = "set_manager_status" =>
            /\ m_result # NoResult
            /\ m_result[1] \in {"CONTINUE", "PAUSE"})

C11_Witness ==
    /\ m_pc = "set_manager_status"
    /\ m_requests = NumKeys * NumModels
    /\ m_last # "success"
    /\ current_api_idx = NumKeys - 1

\* C12: an evaluation that ends without a successful request returns
\* (CONTINUE, 'All APIs exhausted'), and only after |keys| x |models|
\* requests, one full sweep of the pool.
C12_ExhaustedAfterFullSweep ==
    (m_pc = "set_manager_status" /\ m_requests > 0 /\ m_last # "success") =>
        /\ m_result = <<"CONTINUE", "All APIs exhausted">>
        /\ m_requests = NumKeys * NumModels

\* C13: after a failed request, a not-found error advances the model index
\* and keeps the key index; a quota error advances the model index when a
\* later model remains under the key, and otherwise advances the key index
\* and resets the model index to the first; any other error advances the
\* model index.
C13_RotationAfterFailure ==
    [][RequestFailed =>
        CASE m_last' = "not_found" ->
                /\ current_model_idx' = (current_model_idx + 1) % NumModels
                /\ current_api_idx' = current_api_idx
          [] m_last' = "rate_limit" ->
                IF current_model_idx < NumModels - 1
                THEN /\ current_model_idx' = current_model_idx + 1
                     /\ current_api_idx' = current_api_idx
                ELSE /\ current_api_idx' = (current_api_idx + 1) % NumKeys
                     /\ current_model_idx' = 0
          [] OTHER ->
                current_model_idx' = (current_model_idx + 1) % NumModels]_vars

\* a text parse_response cannot turn into CONTINUE or PAUSE
Malformed(text) ==
    \/ ~text.match
    \/ ~text.json
    \/ Upper(text.action) \notin {"CONTINUE", "PAUSE"}

\* C14: a request that returns a text that cannot be parsed, or whose action
\* is neither CONTINUE nor PAUSE, ends the evaluation on that attempt with
\* CONTINUE and a parse reason, and leaves the rotation indices as they were.
C14_MalformedFallsBack ==
    [][(RequestSucceeded /\ Malformed(m_text')) =>
        /\ m_result'[1] = "CONTINUE"
        /\ m_result'[2] \in {"Parse fallback", "Parse error"}
        /\ m_pc' = "set_manager_status"
        /\ current_api_idx' = current_api_idx
        /\ current_model_idx' = current_model_idx]_vars

C14_Witness ==
    /\ m_pc = "set_manager_status"
    /\ m_last = "success"
    /\ m_text.action = "HOLD"
    /\ m_result = <<"CONTINUE", "Parse fallback">>
    /\ m_requests > 1

\* C15: in a manager cycle that finds the trade log empty no request is
\* issued, the rotation indices stay as they were, and set_manager_status is
\* called with (CONTINUE, 'No trades'): the stored action is CONTINUE once
\* the UPDATE is through.
C15_EmptyLogSkipsRequest ==
    [][/\ (m_pc = "get_recent_trades" /\ trade_logs = <<>> /\ m_pc' # m_pc) =>
            /\ m_pc' = "set_manager_status"
            /\ m_result' = <<"CONTINUE", "No trades">>
            /\ m_requests' = 0
            /\ current_api_idx' = current_api_idx
            /\ current_model_idx' = current_model_idx
       /\ (m_pc = "set_manager_status" /\ trade_logs = <<>> /\ m_pc' # m_pc) =>
            /\ m_result = <<"CONTINUE", "No trades">>
            /\ m_requests' = 0
            /\ manager_status' = "CONTINUE"
            /\ current_api_idx' = current_api_idx
            /\ current_model_idx' = current_model_idx]_vars

C15_Witness ==
    /\ m_pc = "set_manager_status"
    /\ trade_logs = <<>>
    /\ m_result = <<"CONTINUE", "No trades">>
    /\ m_requests = 0

\* a step of the execution engine's loop, of the quant engine's loop, of the
\* Gemini manager's loop, and a step of some process's start-up
ExecutionStep == e_pc' # e_pc
PipelineStep == q_pc' # q_pc
StartUpStep == started' # started
AdvisoryStep ==
    /\ ~ExecutionStep /\ ~PipelineStep /\ ~StartUpStep
    /\ market_ts' = market_ts /\ market_price' = market_price

\* the Portfolio record, the ManagerGate record differ after the step: the
\* row appears, or its stored value changes
PortfolioChanged ==
    \/ ("portfolio" \in rows') # ("portfolio" \in rows)
    \/ portfolio' # portfolio
GateChanged ==
    \/ ("manager_status" \in rows') # ("manager_status" \in rows)
    \/ manager_status' # manager_status

\* C16: as stated: the Portfolio record and the trade log are changed only by
\* steps of the execution loop, the signal file only by steps of the quant
\* loop, the ManagerGate only by steps of the manager loop; no start-up step
\* changes the Portfolio or the trade log.
C16_SingleWriter ==
    [][/\ (PortfolioChanged \/ trade_logs' # trade_logs) => ExecutionStep
       /\ signal_file' # signal_file => PipelineStep
       /\ GateChanged => AdvisoryStep]_vars

\* C16, amended: the loops keep to one writer per record, and a start-up step
\* writes nothing but a seed row that is absent: it inserts the initial
\* Portfolio and the initial CONTINUE gate into a store that has none, and
\* leaves an existing Portfolio row, an existing gate row and the trade log
\* as they are.
C16_SingleWriterOnceSeeded ==
    [][/\ trade_logs' # trade_logs => ExecutionStep
       /\ signal_file' # signal_file => PipelineStep
       /\ PortfolioChanged =>
            \/ ExecutionStep /\ "portfolio" \in rows
            \/ /\ StartUpStep /\ "portfolio" \notin rows /\ "portfolio" \in rows'
               /\ portfolio' = DefaultPortfolio
       /\ GateChanged =>
            \/ AdvisoryStep /\ "manager_status" \in rows
            \/ /\ StartUpStep /\ "manager_status" \notin rows
               /\ "manager_status" \in rows' /\ manager_status' = "CONTINUE"]_vars

\* the execution engine has traded and the gate is PAUSE while a process is
\* still to start: its start-up finds both rows written
C16_Witness ==
    /\ rows = SeedRows
    /\ trade_logs # <<>>
    /\ portfolio # DefaultPortfolio
    /\ manager_status = "PAUSE"
    /\ "dashboard" \notin started

\* C17: the signal file is replaced atomically: a load_signal of the execution
\* engine that falls between the steps of a save_signal of the quant engine
\* reads the complete previous signal or the complete new one (or finds no
\* file before the first save), never an empty or cut-off file.
C17_SignalReadAtomic ==
    [][(e_pc = "load_signal" /\ ExecutionStep) =>
            signal_file.state \in {"absent", "complete"}]_vars

\* the run has reached the bounds of the model on trades
ExecAtCap ==
    /\ e_pc = "get_manager_status"
    /\ Len(trade_logs) >= MaxTrades \/ NMutations >= MaxTrades

C19_TooFewRowsNoSignal ==
    [][(/\ q_pc = "load"
        /\ q_rows' # NoRows
        /\ (q_rows' # q_rows \/ q_outcome' # q_outcome \/ q_fitted' # q_fitted)
        /\ q_rows' - 1 < 50) =>
            /\ q_fitted' = FALSE
            /\ signal_file' = signal_file
            /\ q_pc' = "load"
            /\ q_outcome' = "no_signal"]_vars

\* a cycle with 50 engineered rows, 49 of them labelled, has ended without a
\* signal and the signal of an earlier cycle is still in the file
C19_Witness ==
    /\ q_rows = 50
    /\ q_outcome = "no_signal"
    /\ ~q_fitted
    /\ q_pc = "load"
    /\ signal_file.state = "complete"

\* C20: an execution cycle that loaded no signal, or got no current price
\* (no row, or the query failed), ends at the missing-input check: the cycle
\* goes on to the gate, to the log and to the Portfolio only with a signal
\* and a price, and the step that finds one missing starts the next cycle
\* with nothing written.
C20_MissingInputIdles ==
    [][/\ e_pc' \in {"get_manager_status", "log_trade", "update_portfolio"} =>
            e_signal' # NoSignal /\ e_price' # NoPrice
       /\ (LogAppended \/ PortfolioWritten \/ portfolio' # portfolio) =>
            e_signal # NoSignal /\ e_price # NoPrice
       /\ (/\ e_pc = "get_current_price" /\ ExecutionStep
           /\ e_signal = NoSignal \/ market_price = NoPrice) =>
            /\ e_pc' = "get_portfolio"
            /\ trade_logs' = trade_logs
            /\ portfolio' = portfolio
            /\ mutations' = mutations]_vars

\* a cycle at the check with a price in the store and no signal file yet
C20_Witness ==
    /\ e_pc = "get_current_price"
    /\ e_signal = NoSignal
    /\ signal_file.state = "absent"
    /\ market_price # NoPrice

\* the cycle in progress holds a BUY signal with its balance not above its
\* price, or a SELL signal with no position
GuardSkips ==
    \/ e_signal.signal = "BUY" /\ e_portfolio.balance <= e_price
    \/ e_signal.signal = "SELL" /\ e_portfolio.positions = 0

\* C21: a cycle that gets to the trade with a BUY signal and a balance not
\* above the price, or a SELL signal and no position, ends with the whole
\* Portfolio row as it was, last_trade_time included, and with nothing
\* appended; the signal file is as it was too, so the signal is no more
\* stale than before and the next cycle meets it again.
C21_GuardSkipLeavesPortfolio ==
    [][(e_pc = "get_manager_status" /\ ExecutionStep /\ GuardSkips) =>
            /\ portfolio' = portfolio
            /\ trade_logs' = trade_logs
            /\ mutations' = mutations
            /\ signal_file' = signal_file
            /\ e_pc' = "get_portfolio"]_vars

\* after a BUY spent the balance, a fresh BUY signal meets the guard
C21_Witness ==
    /\ e_pc = "get_manager_status"
    /\ e_failed = {}
    /\ manager_status = "CONTINUE"
    /\ e_signal.signal = "BUY"
    /\ e_portfolio.balance <= e_price
    /\ e_signal.timestamp # e_portfolio.last_trade_time
    /\ e_portfolio.last_trade_time # NoTimestamp

\* the signal the cycle loaded carries the last_trade_time the cycle read
StaleInCycle ==
    e_signal # NoSignal /\ e_signal.timestamp = e_portfolio.last_trade_time

\* C22: the checks run in the order missing signal or price, stale signal,
\* gate: the cycle gets to the read of the gate only with a signal and a
\* price and with the signal's timestamp different from the last_trade_time
\* it read; a cycle whose signal is stale while the stored gate is PAUSE ends
\* at the stale check, before the gate is read.
C22_ChecksInOrder ==
    [][/\ (ExecutionStep /\ e_pc' = "get_manager_status") =>
            /\ e_pc = "get_current_price"
            /\ e_signal' # NoSignal /\ e_price' # NoPrice
            /\ e_signal'.timestamp # e_portfolio'.last_trade_time
       /\ (/\ e_pc = "get_current_price" /\ ExecutionStep
           /\ StaleInCycle /\ manager_status = "PAUSE") =>
            /\ e_pc' = "get_portfolio"
            /\ e_gate' = "CONTINUE"
            /\ UNCHANGED store_vars]_vars

\* a cycle at the checks with the signal it already traded on, a price in the
\* store, and the gate at PAUSE
C22_Witness ==
    /\ e_pc = "get_current_price"
    /\ e_failed = {}
    /\ StaleInCycle
    /\ market_price # NoPrice
    /\ manager_status = "PAUSE"

\* C23: whenever the execution engine appends to trade_logs or writes the
\* Portfolio, the stored gate action is not PAUSE at that moment, also when
\* the manager wrote PAUSE after the cycle read the gate.
C23_NoWriteUnderPause ==
    [][(LogAppended \/ PortfolioWritten) => manager_status # "PAUSE"]_vars

\* every (key, model) pair of the pool
AllPairs == (0..(NumKeys - 1)) \X (0..(NumModels - 1))

\* C24: within one evaluation no (key, model) pair is requested twice (the
\* pairs requested are as many as the requests), so an evaluation that ends
\* after |keys| x |models| failed requests has tried every pair of the pool.
C24_EachPairOnce ==
    /\ Cardinality(m_tried) = m_requests
    /\ (m_requests = NumKeys * NumModels /\ m_last # "success") =>
            m_tried = AllPairs

\* C25: the rotation indices are never reset: they stay within their lists,
\* the steps between the end of one evaluation and the first request of the
\* next leave them as they are, and that first request goes to the pair the
\* indices then name.
C25_IndicesPersist ==
    [][/\ current_api_idx' \in 0..(NumKeys - 1)
       /\ current_model_idx' \in 0..(NumModels - 1)
       /\ m_pc # "request" =>
            /\ current_api_idx' = current_api_idx
            /\ current_model_idx' = current_model_idx
       /\ (m_pc = "request" /\ m_requests = 0 /\ m_requests' = 1) =>
            m_tried' = {<<current_api_idx, current_model_idx>>}]_vars

\* an evaluation about to make its first request with the second key and the
\* second model, where an earlier evaluation left the indices
C25_Witness ==
    /\ m_pc = "request"
    /\ m_requests = 0
    /\ current_api_idx = 1
    /\ current_model_idx = 1

\* C26: the key index never decreases, so no request of an evaluation goes
\* to a key before the current one; and a quota error at the last key and
\* last model ends the evaluation at that request with the indices left
\* there, after a single request when it is the evaluation's first.
C26_KeyNeverGoesBack ==
    [][/\ current_api_idx' >= current_api_idx
       /\ \A pair \in m_tried' : pair[1] <= current_api_idx'
       /\ (/\ RequestFailed /\ m_last' = "rate_limit"
           /\ current_api_idx = NumKeys - 1
           /\ current_model_idx = NumModels - 1) =>
            /\ m_pc' = "set_manager_status"
            /\ current_api_idx' = current_api_idx
            /\ current_model_idx' = current_model_idx
            /\ m_requests = 0 => m_requests' = 1]_vars

\* an evaluation that began at the last key and last model and was ended by
\* a quota error on its first request
C26_Witness ==
    /\ m_pc = "set_manager_status"
    /\ m_requests = 1
    /\ m_last = "rate_limit"
    /\ current_api_idx = NumKeys - 1
    /\ current_model_idx = NumModels - 1
    /\ m_result = <<"CONTINUE", "All APIs exhausted">>

\* balance + positions * price
NetWorth(balance, positions, price) == balance + positions * price

\* C27: a trade keeps the net worth at its price: the balance and position
\* written to the Portfolio are worth, at the price of the trade, what the
\* balance and position the trade was called with were worth, and the balance
\* of the entry logged in the cycle is the balance written to the Portfolio.
C27_NetWorthConserved ==
    [][PortfolioWritten =>
         /\ NetWorth(portfolio'.balance, portfolio'.positions, e_price)
              = NetWorth(e_portfolio.balance, e_portfolio.positions, e_price)
         /\ e_logged =>
              /\ Last(trade_logs).price = e_price
              /\ Last(trade_logs).balance = portfolio'.balance]_vars

\* a BUY and a SELL at different prices, both logged and both written
C27_Witness ==
    /\ NMutations = 2
    /\ Len(trade_logs) = 2
    /\ trade_logs[1].action = "BUY"
    /\ trade_logs[2].action = "SELL"
    /\ trade_logs[1].price # trade_logs[2].price
    /\ portfolio.balance = trade_logs[2].balance
    /\ portfolio.positions = 0

\* the signal, with the balance, position and price the cycle holds, is one
\* the trade branch acts on
Actionable ==
    \/ e_signal.signal = "BUY" /\ e_portfolio.balance > e_price
    \/ e_signal.signal = "SELL" /\ e_portfolio.positions > 0

\* C28: with store accesses that succeed, a cycle reads the stored Portfolio
\* and the signal in the file; with a timestamp different from
\* last_trade_time and a price it goes on to the gate; with the gate at
\* CONTINUE and an actionable signal it goes on to the trade, which appends
\* the entry and writes the Portfolio with the signal's timestamp; and a
\* cycle that then meets the same signal ends at the stale check with
\* nothing written.
C28_FreshSignalIsTraded ==
    [][/\ (e_pc = "get_portfolio" /\ ExecutionStep) => e_portfolio' = portfolio
       /\ (e_pc = "load_signal" /\ ExecutionStep /\ signal_file.state = "complete") =>
            e_signal' = signal_file.content /\ e_pc' = "get_current_price"
       /\ (/\ e_pc = "get_current_price" /\ ExecutionStep
           /\ e_signal # NoSignal /\ market_price # NoPrice
           /\ e_signal.timestamp # e_portfolio.last_trade_time) =>
            e_pc' = "get_manager_status" /\ e_price' = market_price
       /\ (/\ e_pc = "get_manager_status" /\ ExecutionStep
           /\ manager_status = "CONTINUE" /\ Actionable) =>
            e_pc' = "log_trade"
       /\ (e_pc = "log_trade" /\ ExecutionStep) =>
            /\ LogAppended
            /\ Last(trade_logs').action = e_signal.signal
            /\ e_pc' = "update_portfolio"
       /\ (e_pc = "update_portfolio" /\ ExecutionStep) =>
            /\ PortfolioWritten
            /\ portfolio'.last_trade_time = e_signal.timestamp
            /\ e_pc' = "get_portfolio"
       /\ (/\ e_pc = "get_current_price" /\ ExecutionStep
           /\ e_signal # NoSignal /\ market_price # NoPrice
           /\ e_signal.timestamp = e_portfolio.last_trade_time) =>
            /\ e_pc' = "get_portfolio"
            /\ UNCHANGED store_vars]_vars

\* after a trade was written, the next cycle holds the same signal at the
\* stale check, with the gate at CONTINUE
C28_Witness ==
    /\ e_pc = "get_current_price"
    /\ NMutations >= 1
    /\ Len(trade_logs) = NMutations
    /\ StaleInCycle
    /\ e_signal = signal_file.content
    /\ market_price # NoPrice
    /\ manager_status = "CONTINUE"

====
